---- MODULE Spec2Model ----
(***************************************************************************)
(* Document lifecycle and controlled distribution of cybaemtech/Prototype. *)
(*                                                                         *)
(* The request handlers of server/routes.ts are modelled step by step:     *)
(* every `await storage.X(...)` of a handler is one atomic step, and the   *)
(* steps of different in-flight requests interleave freely (Node's event   *)
(* loop runs another request's continuation at every await).  The storage  *)
(* layer itself (server/storage.ts) is not among the sources; its calls    *)
(* are modelled from the specification: each call is atomic, update is a   *)
(* merge of the supplied fields, createDocument rejects a duplicate        *)
(* (docNumber, revisionNo), createControlCopy numbers copies atomically.   *)
(***************************************************************************)
EXTENDS Integers, Sequences, FiniteSets, TLC

VARIABLES
  documents,            \* storage: Document rows, in creation order (id = index)
  documentDepartments,  \* storage: set of <<documentId, departmentId>>
  notifications,        \* storage: Notification rows
  controlCopies,        \* storage: ControlCopy rows, in creation order (id = index)
  printLogs,            \* storage: PrintLog rows, in creation order
  reqs,                 \* every request received so far: inputs, locals, position, response
  pdfs,                 \* the files of the pdfs directory: path -> content
  dialog                \* client: props, state and callback calls of the approval dialog

vars == <<documents, documentDepartments, notifications, controlCopies, printLogs, reqs,
          pdfs, dialog>>

NULL == "null"

(* Bounds of the model. *)
MaxOps == 3
MaxInFlight == 2
MaxDist == 2

----------------------------------------------------------------------------
(* Users.  The table is fixed: no modelled handler changes it. *)

UserOrder == <<"c1", "a1", "i1", "i2", "r1", "m1">>

Users == {UserOrder[i] : i \in 1..Len(UserOrder)}

role(u) ==
  CASE u = "c1" -> "creator"
    [] u = "a1" -> "approver"
    [] u = "i1" -> "issuer"
    [] u = "i2" -> "issuer"
    [] u = "r1" -> "recipient"
    [] OTHER    -> "admin"

masterCopyAccess(u) == u = "m1"

getUser(id) == IF id \in Users THEN id ELSE NULL

IsRole(r) == [u \in Users |-> role(u) = r]

getUsersByRole(r) == SelectSeq(UserOrder, LAMBDA u : IsRole(r)[u])

(* JavaScript truthiness of a string-or-undefined value. *)
Truthy(x) == x # NULL /\ x # ""

----------------------------------------------------------------------------
(* Storage calls on Document rows. *)

NoDocument ==
  [id |-> 0, docNumber |-> NULL, revisionNo |-> 0, status |-> NULL,
   preparedBy |-> NULL, approvedBy |-> NULL, issuedBy |-> NULL,
   approvalRemarks |-> NULL, declineRemarks |-> NULL, issueRemarks |-> NULL,
   issuerName |-> NULL, approvedAt |-> NULL, issuedAt |-> NULL,
   wordFilePath |-> NULL]

DocIds == 1..Len(documents)

getDocument(id) == IF id \in DocIds THEN documents[id] ELSE NoDocument

Found(doc) == doc.id # 0

(* createDocument: a new row at "pending"; a (docNumber, revisionNo) that  *)
(* an existing row already has is rejected.                                *)
DuplicateRevision(data) ==
  \E i \in DocIds : /\ documents[i].docNumber = data.docNumber
                    /\ documents[i].revisionNo = data.revisionNo

NewRow(id, data) ==
  [NoDocument EXCEPT !.id = id,
                     !.docNumber = data.docNumber,
                     !.revisionNo = data.revisionNo,
                     !.status = "pending",
                     !.preparedBy = data.preparedBy]

createDocument(data) == NewRow(Len(documents) + 1, data)

(* updateDocument: a merge of the supplied fields into the row. *)
updateDocument(id, fields) ==
  IF id \in DocIds THEN [documents EXCEPT ![id] = fields @@ @] ELSE documents

getDocumentsByStatus(status) ==
  SelectSeq(documents, LAMBDA d : d.status = status)

assignDocumentToDepartments(id, departments) ==
  documentDepartments \cup {<<id, departments[i]>> : i \in 1..Len(departments)}

(* createNotification.  op and k identify the request and the call that    *)
(* created the row (the row's own unique id).                              *)
NotesOf(r) == {n \in notifications : n.op = r}

createNotification(r, userId, documentId, type) ==
  notifications \cup {[userId |-> userId, documentId |-> documentId, type |-> type,
                       op |-> r, k |-> Cardinality(NotesOf(r)) + 1]}

----------------------------------------------------------------------------
(* Requests. *)

NoBody ==
  [docNumber |-> NULL, revisionNo |-> NULL, preparedBy |-> NULL, remarks |-> NULL,
   approvedBy |-> NULL, departments |-> <<>>, issuedBy |-> NULL,
   issuerName |-> NULL, userId |-> NULL, version |-> NULL]

NoControlCopy == [id |-> 0, documentId |-> 0, userId |-> NULL, actionType |-> NULL,
                  copyNumber |-> 0]

(* A path of the pdfs directory, `${docNumber}_v${revisionNo}_cc${n}.pdf`,  *)
(* and what the footer of the file at it says.                             *)
NoPath == <<NULL, 0, 0>>

NoPdf == [userId |-> NULL, controlCopyNumber |-> 0]

(* document, updatedDoc, requestedDoc, controlCopy and pdfPath are the      *)
(* handler's locals of those names; sent is the body of the response and   *)
(* versions the listing a versions request answers with.  wrote is a       *)
(* history field: the request has changed a Document row or a department   *)
(* association.                                                            *)
NewRequest(op, id, body, document, pc, res) ==
  [op |-> op, id |-> id, body |-> body, document |-> document,
   updatedDoc |-> NoDocument, requestedDoc |-> NoDocument,
   controlCopy |-> NoControlCopy, pdfPath |-> NoPath, sent |-> NoPdf, versions |-> <<>>,
   wrote |-> FALSE, pc |-> pc, res |-> res]

Ops == 1..Len(reqs)

InFlight == {r \in Ops : reqs[r].pc # "done"}

CanStart == Len(reqs) < MaxOps /\ Cardinality(InFlight) < MaxInFlight

(* Ids a request may address: every existing row and one id that does not resolve. *)
RequestIds == 1..(Len(documents) + 1)

Goto(r, pc) == [reqs[r] EXCEPT !.pc = pc]

Wrote(r, pc) == [reqs[r] EXCEPT !.pc = pc, !.wrote = TRUE]

(* const updatedDoc = await storage.updateDocument(...): the row as merged. *)
Updated(r, pc, rows) == [Wrote(r, pc) EXCEPT !.updatedDoc = rows[reqs[r].id]]

Respond(r, code) == [reqs[r] EXCEPT !.pc = "done", !.res = code]

(* parseInt(s, 10) of the strings the model sends; NaN for a non-number. *)
NaN == -1

parseInt(s) ==
  CASE s = "0" -> 0
    [] s = "1" -> 1
    [] s = "2" -> 2
    [] OTHER   -> NaN

----------------------------------------------------------------------------
(* POST /api/documents *)

DocNumbers == {"QA-001"}
Revisions == {NULL, "1"}
Preparers == {"c1", "i1"}

(* documentData: revisionNo is parsed, and 0 when the form gives none. *)
documentData(body) ==
  [docNumber |-> body.docNumber,
   revisionNo |-> IF Truthy(body.revisionNo) THEN parseInt(body.revisionNo) ELSE 0,
   preparedBy |-> body.preparedBy]

AfterNotifyLoop(targets, inLoop, after) == IF Len(targets) > 0 THEN inLoop ELSE after

(* Mutant of PostDocument: the handler catches createDocument's error and  *)
(* goes on to notify the approvers.                                        *)
PostDocument_SwallowsError(body) ==
  /\ CanStart
  /\ LET data == documentData(body)
         doc == createDocument(data)
     IN IF DuplicateRevision(data)
          THEN /\ reqs' = Append(reqs, NewRequest("create", 0, body, NoDocument, "c_notify", 0))
               /\ UNCHANGED documents
          ELSE /\ documents' = Append(documents, doc)
               /\ reqs' = Append(reqs, [NewRequest("create", doc.id, body, doc, "c_file", 0)
                                           EXCEPT !.wrote = TRUE])
  /\ UNCHANGED <<documentDepartments, notifications, controlCopies, printLogs, pdfs, dialog>>

(* The request arrives; createDocument inserts the row or throws. *)
PostDocument(body) ==
  /\ CanStart
  /\ LET data == documentData(body)
         doc == createDocument(data)
     IN IF DuplicateRevision(data)
          THEN /\ reqs' = Append(reqs, NewRequest("create", 0, body, NoDocument, "done", 500))
               /\ UNCHANGED documents
          ELSE /\ documents' = Append(documents, doc)
               /\ reqs' = Append(reqs, [NewRequest("create", doc.id, body, doc, "c_file", 0)
                                           EXCEPT !.wrote = TRUE])
  /\ UNCHANGED <<documentDepartments, notifications, controlCopies, printLogs, pdfs, dialog>>

(* saveUploadedFile, then updateDocument(document.id, {wordFilePath}). *)
CreateSaveFile(r) ==
  /\ reqs[r].pc = "c_file"
  /\ documents' = updateDocument(reqs[r].document.id, [wordFilePath |-> "file"])
  /\ reqs' = [reqs EXCEPT ![r] =
                IF Len(getUsersByRole("approver")) > 0
                  THEN Goto(r, "c_notify") ELSE Respond(r, 201)]
  /\ UNCHANGED <<documentDepartments, notifications, controlCopies, printLogs, pdfs, dialog>>

(* One pass of the loop over getUsersByRole("approver"). *)
CreateNotify(r) ==
  /\ reqs[r].pc = "c_notify"
  /\ LET approvers == getUsersByRole("approver")
         i == Cardinality(NotesOf(r)) + 1
     IN /\ notifications' = createNotification(r, approvers[i], reqs[r].document.id,
                                               "new_document")
        /\ reqs' = [reqs EXCEPT ![r] =
                      IF i < Len(approvers) THEN reqs[r] ELSE Respond(r, 201)]
  /\ UNCHANGED <<documents, documentDepartments, controlCopies, printLogs, pdfs, dialog>>

----------------------------------------------------------------------------
(* POST /api/documents/:id/approve *)

(* The bodies sent: a full approval with departments, one by the preparer   *)
(* themself, one with empty remarks, one by a user id that does not exist. *)
ApproveBodies ==
  { [NoBody EXCEPT !.approvedBy = "a1", !.remarks = "ok", !.departments = <<"QA">>],
    [NoBody EXCEPT !.approvedBy = "c1", !.remarks = "ok"],
    [NoBody EXCEPT !.approvedBy = "a1", !.remarks = ""],
    [NoBody EXCEPT !.approvedBy = "zz", !.remarks = "ok"] }

PostApprove(id, body) ==
  /\ CanStart
  /\ LET document == getDocument(id)
     IN reqs' = Append(reqs,
          IF ~Found(document)
            THEN NewRequest("approve", id, body, document, "done", 404)
            ELSE NewRequest("approve", id, body, document, "a_update", 0))
  /\ UNCHANGED <<documents, documentDepartments, notifications, controlCopies, printLogs, pdfs, dialog>>

(* Mutant of ApproveFields: the update writes approvedBy without status. *)
ApproveFields_NoStatus(body) ==
  [approvalRemarks |-> body.remarks, approvedBy |-> body.approvedBy, approvedAt |-> "t"]

ApproveFields(body) ==
  [status |-> "approved", approvalRemarks |-> body.remarks,
   approvedBy |-> body.approvedBy, approvedAt |-> "t"]

ApproveUpdate(r) ==
  /\ reqs[r].pc = "a_update"
  /\ documents' = updateDocument(reqs[r].id, ApproveFields(reqs[r].body))
  /\ reqs' = [reqs EXCEPT ![r] =
                IF Len(reqs[r].body.departments) > 0
                  THEN Updated(r, "a_depts", documents')
                  ELSE Updated(r, AfterNotifyLoop(getUsersByRole("issuer"),
                                                  "a_notify", "a_notifyPrep"), documents')]
  /\ UNCHANGED <<documentDepartments, notifications, controlCopies, printLogs, pdfs, dialog>>

ApproveDepartments(r) ==
  /\ reqs[r].pc = "a_depts"
  /\ documentDepartments' = assignDocumentToDepartments(reqs[r].id, reqs[r].body.departments)
  /\ reqs' = [reqs EXCEPT ![r] =
                Goto(r, AfterNotifyLoop(getUsersByRole("issuer"), "a_notify", "a_notifyPrep"))]
  /\ UNCHANGED <<documents, notifications, controlCopies, printLogs, pdfs, dialog>>

(* Mutant of ApproveNotifyIssuer: only the first issuer is notified. *)
ApproveNotifyIssuer_FirstOnly(r) ==
  /\ reqs[r].pc = "a_notify"
  /\ notifications' = createNotification(r, getUsersByRole("issuer")[1], reqs[r].id,
                                         "approved_document")
  /\ reqs' = [reqs EXCEPT ![r] = Goto(r, "a_notifyPrep")]
  /\ UNCHANGED <<documents, documentDepartments, controlCopies, printLogs, pdfs, dialog>>

ApproveNotifyIssuer(r) ==
  /\ reqs[r].pc = "a_notify"
  /\ LET issuers == getUsersByRole("issuer")
         i == Cardinality(NotesOf(r)) + 1
     IN /\ notifications' = createNotification(r, issuers[i], reqs[r].id, "approved_document")
        /\ reqs' = [reqs EXCEPT ![r] =
                      IF i < Len(issuers) THEN reqs[r] ELSE Goto(r, "a_notifyPrep")]
  /\ UNCHANGED <<documents, documentDepartments, controlCopies, printLogs, pdfs, dialog>>

ApproveNotifyPreparer(r) ==
  /\ reqs[r].pc = "a_notifyPrep"
  /\ notifications' = createNotification(r, reqs[r].document.preparedBy, reqs[r].id,
                                         "document_status_update")
  /\ reqs' = [reqs EXCEPT ![r] = Respond(r, 200)]
  /\ UNCHANGED <<documents, documentDepartments, controlCopies, printLogs, pdfs, dialog>>

----------------------------------------------------------------------------
(* POST /api/documents/:id/decline *)

DeclineBodies == { [NoBody EXCEPT !.remarks = m] : m \in {"", "no"} }

(* Mutant of PostDecline: the `if (!document)` return is missing. *)
PostDecline_NoNotFound(id, body) ==
  /\ CanStart
  /\ reqs' = Append(reqs, NewRequest("decline", id, body, getDocument(id), "d_update", 0))
  /\ UNCHANGED <<documents, documentDepartments, notifications, controlCopies, printLogs, pdfs, dialog>>

PostDecline(id, body) ==
  /\ CanStart
  /\ LET document == getDocument(id)
     IN reqs' = Append(reqs,
          IF ~Found(document)
            THEN NewRequest("decline", id, body, document, "done", 404)
            ELSE NewRequest("decline", id, body, document, "d_update", 0))
  /\ UNCHANGED <<documents, documentDepartments, notifications, controlCopies, printLogs, pdfs, dialog>>

(* Mutant of DeclineFields: approvedBy is not cleared. *)
DeclineFields_KeepsApprover(body) ==
  [status |-> "declined", declineRemarks |-> body.remarks, issuedBy |-> NULL]

DeclineFields(body) ==
  [status |-> "declined", declineRemarks |-> body.remarks,
   approvedBy |-> NULL, issuedBy |-> NULL]

DeclineUpdate(r) ==
  /\ reqs[r].pc = "d_update"
  /\ documents' = updateDocument(reqs[r].id, DeclineFields(reqs[r].body))
  /\ reqs' = [reqs EXCEPT ![r] = Updated(r, "d_notify", documents')]
  /\ UNCHANGED <<documentDepartments, notifications, controlCopies, printLogs, pdfs, dialog>>

DeclineNotify(r) ==
  /\ reqs[r].pc = "d_notify"
  /\ notifications' = createNotification(r, reqs[r].document.preparedBy, reqs[r].id,
                                         "document_declined")
  /\ reqs' = [reqs EXCEPT ![r] = Respond(r, 200)]
  /\ UNCHANGED <<documents, documentDepartments, controlCopies, printLogs, pdfs, dialog>>

----------------------------------------------------------------------------
(* POST /api/documents/:id/issue *)

IssueBodies ==
  { [NoBody EXCEPT !.issuedBy = "i1", !.issuerName = "Ira", !.remarks = "go"] }

PostIssue(id, body) ==
  /\ CanStart
  /\ LET document == getDocument(id)
     IN reqs' = Append(reqs,
          IF ~Found(document)
            THEN NewRequest("issue", id, body, document, "done", 404)
            ELSE NewRequest("issue", id, body, document, "i_update", 0))
  /\ UNCHANGED <<documents, documentDepartments, notifications, controlCopies, printLogs, pdfs, dialog>>

IssueFields(body) ==
  [status |-> "issued", issuedBy |-> body.issuedBy, issuerName |-> body.issuerName,
   issueRemarks |-> body.remarks, issuedAt |-> "t"]

(* Mutant of IssueUpdate: the update is applied to every revision of the   *)
(* docNumber, not to the addressed row alone.                              *)
IssueUpdate_EveryRevision(r) ==
  /\ reqs[r].pc = "i_update"
  /\ documents' = [i \in DocIds |->
                     IF documents[i].docNumber = reqs[r].document.docNumber
                       THEN IssueFields(reqs[r].body) @@ documents[i]
                       ELSE documents[i]]
  /\ reqs' = [reqs EXCEPT ![r] = Updated(r, "i_notifyPrep", documents')]
  /\ UNCHANGED <<documentDepartments, notifications, controlCopies, printLogs, pdfs, dialog>>

IssueUpdate(r) ==
  /\ reqs[r].pc = "i_update"
  /\ documents' = updateDocument(reqs[r].id, IssueFields(reqs[r].body))
  /\ reqs' = [reqs EXCEPT ![r] = Updated(r, "i_notifyPrep", documents')]
  /\ UNCHANGED <<documentDepartments, notifications, controlCopies, printLogs, pdfs, dialog>>

IssueNotifyPreparer(r) ==
  /\ reqs[r].pc = "i_notifyPrep"
  /\ notifications' = createNotification(r, reqs[r].document.preparedBy, reqs[r].id,
                                         "document_issued")
  /\ reqs' = [reqs EXCEPT ![r] =
                IF Truthy(reqs[r].document.approvedBy)
                  THEN Goto(r, "i_notifyAppr") ELSE Respond(r, 200)]
  /\ UNCHANGED <<documents, documentDepartments, controlCopies, printLogs, pdfs, dialog>>

IssueNotifyApprover(r) ==
  /\ reqs[r].pc = "i_notifyAppr"
  /\ notifications' = createNotification(r, reqs[r].document.approvedBy, reqs[r].id,
                                         "document_issued")
  /\ reqs' = [reqs EXCEPT ![r] = Respond(r, 200)]
  /\ UNCHANGED <<documents, documentDepartments, controlCopies, printLogs, pdfs, dialog>>

----------------------------------------------------------------------------
(* GET /api/documents/:id/pdf and POST /api/documents/:id/print.  The two   *)
(* handlers run the same steps; print adds createPrintLog.                 *)

(* Storage calls on ControlCopy and PrintLog rows.  createControlCopy reads *)
(* the count of the document's copies and appends the next one atomically. *)
CopiesOf(documentId) ==
  {i \in 1..Len(controlCopies) : controlCopies[i].documentId = documentId}

createControlCopy(documentId, userId, actionType) ==
  [id |-> Len(controlCopies) + 1, documentId |-> documentId, userId |-> userId,
   actionType |-> actionType, copyNumber |-> Cardinality(CopiesOf(documentId)) + 1]

createPrintLog(documentId, userId, controlCopyId) ==
  [id |-> Len(printLogs) + 1, documentId |-> documentId, userId |-> userId,
   controlCopyId |-> controlCopyId, medium |-> "PDF"]

(* The queries sent: no userId, an unknown user, and the recipient (no     *)
(* master copy access) and the admin (master copy access) with and without *)
(* an explicit version.                                                    *)
DistBodies ==
  { [NoBody EXCEPT !.userId = u, !.version = v] :
      u \in {"r1", "m1"}, v \in {NULL, "0", "1"} }
  \cup { NoBody, [NoBody EXCEPT !.userId = "zz"], [NoBody EXCEPT !.userId = "r1", !.version = "x"] }

(* allVersions.reduce(...): the first row with the greatest revisionNo. *)
RECURSIVE latestOf(_, _, _)
latestOf(versions, i, latest) ==
  IF i > Len(versions) THEN latest
  ELSE latestOf(versions, i + 1,
                IF versions[i].revisionNo > latest.revisionNo THEN versions[i] ELSE latest)

(* allVersions.find(d => d.revisionNo === requestedVersion): the first match. *)
RECURSIVE findVersion(_, _, _)
findVersion(versions, i, requestedVersion) ==
  IF i > Len(versions) THEN NoDocument
  ELSE IF versions[i].revisionNo = requestedVersion THEN versions[i]
  ELSE findVersion(versions, i + 1, requestedVersion)

(* Mutant of CheckResolved: the status check is missing. *)
CheckResolved_NoStatusCheck(r, document) ==
  IF ~Truthy(document.wordFilePath) THEN Respond(r, 404)
  ELSE [reqs[r] EXCEPT !.document = document, !.pc = "v_copy"]

(* The checks on the resolved document that precede issuance. *)
CheckResolved(r, document) ==
  IF document.status # "issued" THEN Respond(r, 403)
  ELSE IF ~Truthy(document.wordFilePath) THEN Respond(r, 404)
  ELSE [reqs[r] EXCEPT !.document = document, !.pc = "v_copy"]

(* Mutant of StartDistribution: the attempt is entered in the ledger as    *)
(* soon as the user and the document are found, before the checks.         *)
StartDistribution_CountsAttempt(op, id, body) ==
  /\ CanStart
  /\ Cardinality({q \in Ops : reqs[q].op \in {"pdf", "print"}}) < MaxDist
  /\ LET user == getUser(body.userId)
         document == getDocument(id)
     IN /\ reqs' = Append(reqs,
             IF ~Truthy(body.userId) THEN NewRequest(op, id, body, NoDocument, "done", 400)
             ELSE IF user = NULL THEN NewRequest(op, id, body, NoDocument, "done", 404)
             ELSE IF ~Found(document) THEN NewRequest(op, id, body, document, "done", 404)
             ELSE NewRequest(op, id, body, document, "v_versions", 0))
        /\ controlCopies' =
             IF Truthy(body.userId) /\ user # NULL /\ Found(document)
               THEN Append(controlCopies, createControlCopy(id, body.userId, "view"))
               ELSE controlCopies
  /\ UNCHANGED <<documents, documentDepartments, notifications, printLogs, pdfs, dialog>>

StartDistribution(op, id, body) ==
  /\ CanStart
  /\ Cardinality({q \in Ops : reqs[q].op \in {"pdf", "print"}}) < MaxDist
  /\ LET user == getUser(body.userId)
         document == getDocument(id)
     IN reqs' = Append(reqs,
          IF ~Truthy(body.userId) THEN NewRequest(op, id, body, NoDocument, "done", 400)
          ELSE IF user = NULL THEN NewRequest(op, id, body, NoDocument, "done", 404)
          ELSE IF ~Found(document) THEN NewRequest(op, id, body, document, "done", 404)
          ELSE NewRequest(op, id, body, document, "v_versions", 0))
  /\ UNCHANGED <<documents, documentDepartments, notifications, controlCopies, printLogs, pdfs, dialog>>

GetPdf(id, body) == StartDistribution("pdf", id, body)

PostPrint(id, body) == StartDistribution("print", id, body)

(* Mutant of ResolveVersion: an explicit version is not refused to a user  *)
(* without master copy access.                                             *)
ResolveVersion_AnyUserAnyVersion(r) ==
  /\ reqs[r].pc = "v_versions"
  /\ LET document == reqs[r].document
         user == reqs[r].body.userId
         version == reqs[r].body.version
         allIssuedDocs == getDocumentsByStatus("issued")
         allVersions == SelectSeq(allIssuedDocs, LAMBDA d : d.docNumber = document.docNumber)
         latestVersion == latestOf(allVersions, 1, allVersions[1])
         requestedVersion == parseInt(version)
         requestedDoc == findVersion(allVersions, 1, requestedVersion)
     IN reqs' = [reqs EXCEPT ![r] =
          IF Len(allVersions) = 0 THEN Respond(r, 404)
          ELSE IF version # NULL
            THEN IF requestedVersion = NaN THEN Respond(r, 400)
                 ELSE IF ~Found(requestedDoc) THEN Respond(r, 404)
                 ELSE [reqs[r] EXCEPT !.requestedDoc = requestedDoc, !.pc = "v_refetch"]
          ELSE IF ~masterCopyAccess(user) /\ document.id # latestVersion.id
            THEN Respond(r, 403)
          ELSE CheckResolved(r, document)]
  /\ UNCHANGED <<documents, documentDepartments, notifications, controlCopies, printLogs, pdfs, dialog>>

(* Mutant of ResolveVersion: the `allVersions.length === 0` return is       *)
(* missing; the addressed row goes on to the status check.                 *)
ResolveVersion_NoEmptyCheck(r) ==
  /\ reqs[r].pc = "v_versions"
  /\ LET document == reqs[r].document
         user == reqs[r].body.userId
         version == reqs[r].body.version
         allIssuedDocs == getDocumentsByStatus("issued")
         allVersions == SelectSeq(allIssuedDocs, LAMBDA d : d.docNumber = document.docNumber)
         latestVersion == latestOf(allVersions, 1, allVersions[1])
         requestedVersion == parseInt(version)
         requestedDoc == findVersion(allVersions, 1, requestedVersion)
     IN reqs' = [reqs EXCEPT ![r] =
          IF Len(allVersions) = 0 THEN CheckResolved(r, document)
          ELSE IF version # NULL
            THEN IF requestedVersion = NaN THEN Respond(r, 400)
                 ELSE IF ~masterCopyAccess(user) THEN Respond(r, 403)
                 ELSE IF ~Found(requestedDoc) THEN Respond(r, 404)
                 ELSE [reqs[r] EXCEPT !.requestedDoc = requestedDoc, !.pc = "v_refetch"]
          ELSE IF ~masterCopyAccess(user) /\ document.id # latestVersion.id
            THEN Respond(r, 403)
          ELSE CheckResolved(r, document)]
  /\ UNCHANGED <<documents, documentDepartments, notifications, controlCopies, printLogs, pdfs, dialog>>

ResolveVersion(r) ==
  /\ reqs[r].pc = "v_versions"
  /\ LET document == reqs[r].document
         user == reqs[r].body.userId
         version == reqs[r].body.version
         allIssuedDocs == getDocumentsByStatus("issued")
         allVersions == SelectSeq(allIssuedDocs, LAMBDA d : d.docNumber = document.docNumber)
         latestVersion == latestOf(allVersions, 1, allVersions[1])
         requestedVersion == parseInt(version)
         requestedDoc == findVersion(allVersions, 1, requestedVersion)
     IN reqs' = [reqs EXCEPT ![r] =
          IF Len(allVersions) = 0 THEN Respond(r, 404)
          ELSE IF version # NULL
            THEN IF requestedVersion = NaN THEN Respond(r, 400)
                 ELSE IF ~masterCopyAccess(user) THEN Respond(r, 403)
                 ELSE IF ~Found(requestedDoc) THEN Respond(r, 404)
                 ELSE [reqs[r] EXCEPT !.requestedDoc = requestedDoc, !.pc = "v_refetch"]
          ELSE IF ~masterCopyAccess(user) /\ document.id # latestVersion.id
            THEN Respond(r, 403)
          ELSE CheckResolved(r, document)]
  /\ UNCHANGED <<documents, documentDepartments, notifications, controlCopies, printLogs, pdfs, dialog>>

(* Mutant of RefetchRequested: `document` stays the addressed row. *)
RefetchRequested_KeepsAddressed(r) ==
  /\ reqs[r].pc = "v_refetch"
  /\ reqs' = [reqs EXCEPT ![r] = CheckResolved(r, reqs[r].document)]
  /\ UNCHANGED <<documents, documentDepartments, notifications, controlCopies, printLogs, pdfs, dialog>>

(* document = await storage.getDocument(requestedDoc.id) || requestedDoc *)
RefetchRequested(r) ==
  /\ reqs[r].pc = "v_refetch"
  /\ LET fetched == getDocument(reqs[r].requestedDoc.id)
         document == IF Found(fetched) THEN fetched ELSE reqs[r].requestedDoc
     IN reqs' = [reqs EXCEPT ![r] = CheckResolved(r, document)]
  /\ UNCHANGED <<documents, documentDepartments, notifications, controlCopies, printLogs, pdfs, dialog>>

(* Mutant of IssueControlCopy: the handler calls createControlCopy twice   *)
(* and stamps the second row's number.                                     *)
IssueControlCopy_Twice(r) ==
  /\ reqs[r].pc = "v_copy"
  /\ LET actionType == IF reqs[r].op = "print" THEN "print" ELSE "view"
         first == createControlCopy(reqs[r].document.id, reqs[r].body.userId, actionType)
         controlCopy == [first EXCEPT !.id = @ + 1, !.copyNumber = @ + 1]
     IN /\ controlCopies' = controlCopies \o <<first, controlCopy>>
        /\ reqs' = [reqs EXCEPT ![r] =
                      [reqs[r] EXCEPT !.controlCopy = controlCopy,
                                      !.pc = IF reqs[r].op = "print" THEN "v_log" ELSE "v_render"]]
  /\ UNCHANGED <<documents, documentDepartments, notifications, printLogs, pdfs, dialog>>

(* Mutant of IssueControlCopy: the ledger's lock is held until rendering   *)
(* ends, so the call waits while a request on the document is rendering.   *)
IssueControlCopy_WaitsForRender(r) ==
  /\ reqs[r].pc = "v_copy"
  /\ \A q \in Ops : reqs[q].pc \in {"v_log", "v_render", "v_read"}
                     => reqs[q].document.id # reqs[r].document.id
  /\ LET controlCopy == createControlCopy(reqs[r].document.id, reqs[r].body.userId,
                                          IF reqs[r].op = "print" THEN "print" ELSE "view")
     IN /\ controlCopies' = Append(controlCopies, controlCopy)
        /\ reqs' = [reqs EXCEPT ![r] =
                      [reqs[r] EXCEPT !.controlCopy = controlCopy,
                                      !.pc = IF reqs[r].op = "print" THEN "v_log" ELSE "v_render"]]
  /\ UNCHANGED <<documents, documentDepartments, notifications, printLogs, pdfs, dialog>>

IssueControlCopy(r) ==
  /\ reqs[r].pc = "v_copy"
  /\ LET controlCopy == createControlCopy(reqs[r].document.id, reqs[r].body.userId,
                                          IF reqs[r].op = "print" THEN "print" ELSE "view")
     IN /\ controlCopies' = Append(controlCopies, controlCopy)
        /\ reqs' = [reqs EXCEPT ![r] =
                      [reqs[r] EXCEPT !.controlCopy = controlCopy,
                                      !.pc = IF reqs[r].op = "print" THEN "v_log" ELSE "v_render"]]
  /\ UNCHANGED <<documents, documentDepartments, notifications, printLogs, pdfs, dialog>>

LogPrint(r) ==
  /\ reqs[r].pc = "v_log"
  /\ printLogs' = Append(printLogs, createPrintLog(reqs[r].document.id, reqs[r].body.userId,
                                                   reqs[r].controlCopy.id))
  /\ reqs' = [reqs EXCEPT ![r] = Goto(r, "v_render")]
  /\ UNCHANGED <<documents, documentDepartments, notifications, controlCopies, pdfs, dialog>>

(* Mutant of pdfFileName: the name without the copy number, as for a       *)
(* rendering without controlCopyInfo.                                      *)
pdfFileName_NoCopyNumber(document, controlCopyNumber) ==
  <<document.docNumber, document.revisionNo, 0>>

(* pdfFileName of convertWordToPDF for a control copy. *)
pdfFileName(document, controlCopyNumber) ==
  <<document.docNumber, document.revisionNo, controlCopyNumber>>

(* convertWordToPDF: page.pdf writes the document, with the footer built    *)
(* from controlCopyInfo, to pdfPath, replacing a file that is there.       *)
Render(r) ==
  /\ reqs[r].pc = "v_render"
  /\ LET controlCopyInfo == [userId |-> getUser(reqs[r].body.userId),
                             controlCopyNumber |-> reqs[r].controlCopy.copyNumber]
         pdfPath == pdfFileName(reqs[r].document, controlCopyInfo.controlCopyNumber)
     IN /\ pdfs' = (pdfPath :> controlCopyInfo) @@ pdfs
        /\ reqs' = [reqs EXCEPT ![r] = [reqs[r] EXCEPT !.pdfPath = pdfPath, !.pc = "v_read"]]
  /\ UNCHANGED <<documents, documentDepartments, notifications, controlCopies, printLogs, dialog>>

(* pdfBuffer = await fs.readFile(pdfPath); res.send(pdfBuffer) *)
SendPdf(r) ==
  /\ reqs[r].pc = "v_read"
  /\ reqs' = [reqs EXCEPT ![r] = [Respond(r, 200) EXCEPT !.sent = pdfs[reqs[r].pdfPath]]]
  /\ UNCHANGED <<documents, documentDepartments, notifications, controlCopies, printLogs, pdfs, dialog>>

(* Mutant of RenderThrows: the catch deletes the request's ControlCopy. *)
RenderThrows_RollsBack(r) ==
  /\ reqs[r].pc = "v_render"
  /\ controlCopies' = SelectSeq(controlCopies, LAMBDA c : c.id # reqs[r].controlCopy.id)
  /\ reqs' = [reqs EXCEPT ![r] = Respond(r, 500)]
  /\ UNCHANGED <<documents, documentDepartments, notifications, printLogs, pdfs, dialog>>

(* convertWordToPDF throws (mammoth, the browser, the file system). *)
RenderThrows(r) ==
  /\ reqs[r].pc = "v_render"
  /\ reqs' = [reqs EXCEPT ![r] = Respond(r, 500)]
  /\ UNCHANGED <<documents, documentDepartments, notifications, controlCopies, printLogs, pdfs, dialog>>

----------------------------------------------------------------------------
(* GET /api/documents/:docNumber/versions *)

(* The queries sent: the recipient, the admin, an unknown user and no      *)
(* userId, for a docNumber that has rows and for one that has none.        *)
VersionBodies ==
  { [NoBody EXCEPT !.docNumber = n, !.userId = u] :
      n \in {"QA-001", "QA-002"}, u \in {"r1", "m1", "zz", NULL} }

GetVersions(body) ==
  /\ CanStart
  /\ reqs' = Append(reqs,
       IF ~Truthy(body.userId) THEN NewRequest("versions", 0, body, NoDocument, "done", 400)
       ELSE IF getUser(body.userId) = NULL
         THEN NewRequest("versions", 0, body, NoDocument, "done", 404)
       ELSE NewRequest("versions", 0, body, NoDocument, "l_versions", 0))
  /\ UNCHANGED <<documents, documentDepartments, notifications, controlCopies, printLogs, pdfs, dialog>>

(* getDocumentsByStatus("issued"), the filter and the answer.  The reduce   *)
(* starts from documentVersions[0], which is undefined for an empty list.  *)
ListVersions(r) ==
  /\ reqs[r].pc = "l_versions"
  /\ LET allDocuments == getDocumentsByStatus("issued")
         documentVersions ==
           SelectSeq(allDocuments, LAMBDA d : d.docNumber = reqs[r].body.docNumber)
         first == IF Len(documentVersions) = 0 THEN NoDocument ELSE documentVersions[1]
         latestVersion == latestOf(documentVersions, 1, first)
     IN reqs' = [reqs EXCEPT ![r] =
          [Respond(r, 200) EXCEPT !.versions =
             IF masterCopyAccess(reqs[r].body.userId) THEN documentVersions
             ELSE <<latestVersion>>]]
  /\ UNCHANGED <<documents, documentDepartments, notifications, controlCopies, printLogs, pdfs, dialog>>

----------------------------------------------------------------------------
(* client/src/components/ApprovalDialog.tsx *)

MaxSubmits == 2

(* What the user types: nothing, a blank, and a word after a blank. *)
Texts == { <<>>, <<" ">>, <<" ", "o", "k">> }

RECURSIVE trimStart(_)
trimStart(s) == IF s # <<>> /\ Head(s) = " " THEN trimStart(Tail(s)) ELSE s

RECURSIVE trimEnd(_)
trimEnd(s) ==
  IF s # <<>> /\ s[Len(s)] = " " THEN trimEnd(SubSeq(s, 1, Len(s) - 1)) ELSE s

(* String.prototype.trim *)
trim(s) == trimEnd(trimStart(s))

(* The parent shows the dialog: open = true with the props of its choice.  *)
(* The state of the component is kept from one showing to the next.        *)
OpenDialog(type, onApprove, onDecline, departments) ==
  /\ ~dialog.open
  /\ dialog.submits < MaxSubmits
  /\ dialog' = [dialog EXCEPT !.open = TRUE, !.type = type, !.onApprove = onApprove,
                              !.onDecline = onDecline, !.departments = departments]
  /\ UNCHANGED <<documents, documentDepartments, notifications, controlCopies, printLogs, reqs, pdfs>>

SetRemarks(value) ==
  /\ dialog.open
  /\ dialog' = [dialog EXCEPT !.remarks = value]
  /\ UNCHANGED <<documents, documentDepartments, notifications, controlCopies, printLogs, reqs, pdfs>>

(* The input is rendered in approve mode only. *)
SetApproverName(value) ==
  /\ dialog.open
  /\ dialog.type = "approve"
  /\ dialog' = [dialog EXCEPT !.approverName = value]
  /\ UNCHANGED <<documents, documentDepartments, notifications, controlCopies, printLogs, reqs, pdfs>>

(* The checkboxes are rendered in approve mode, one per department. *)
handleDepartmentToggle(deptId) ==
  /\ dialog.open
  /\ dialog.type = "approve"
  /\ \E i \in DOMAIN dialog.departments : dialog.departments[i] = deptId
  /\ LET prev == dialog.selectedDepartments
     IN dialog' = [dialog EXCEPT !.selectedDepartments =
                     IF \E i \in DOMAIN prev : prev[i] = deptId
                       THEN SelectSeq(prev, LAMBDA id : id # deptId)
                       ELSE Append(prev, deptId)]
  /\ UNCHANGED <<documents, documentDepartments, notifications, controlCopies, printLogs, reqs, pdfs>>

(* The Cancel button and the dialog's own close: onClose().  The parent's  *)
(* onClose hides the dialog.                                               *)
Cancel ==
  /\ dialog.open
  /\ dialog' = [dialog EXCEPT !.open = FALSE]
  /\ UNCHANGED <<documents, documentDepartments, notifications, controlCopies, printLogs, reqs, pdfs>>

(* disabled={...} of the submit button *)
SubmitDisabled ==
  \/ trim(dialog.remarks) = <<>>
  \/ dialog.type = "approve" /\ trim(dialog.approverName) = <<>>

(* What handleSubmit calls: onApprove?.(...) or onDecline?.(remarks). *)
Callback ==
  IF dialog.type = "approve"
    THEN IF dialog.onApprove
           THEN <<[name |-> "onApprove", remarks |-> dialog.remarks,
                   departments |-> dialog.selectedDepartments,
                   approverName |-> dialog.approverName]>>
           ELSE <<>>
    ELSE IF dialog.onDecline
           THEN <<[name |-> "onDecline", remarks |-> dialog.remarks,
                   departments |-> <<>>, approverName |-> <<>>]>>
           ELSE <<>>

(* Mutant of handleSubmit: the button is never disabled. *)
handleSubmit_NeverDisabled ==
  /\ dialog.open
  /\ dialog' = [dialog EXCEPT !.calls = @ \o Callback, !.submits = @ + 1,
                              !.remarks = <<>>, !.selectedDepartments = <<>>,
                              !.approverName = <<>>, !.open = FALSE]
  /\ UNCHANGED <<documents, documentDepartments, notifications, controlCopies, printLogs, reqs, pdfs>>

(* A click on the submit button, which is not disabled. *)
handleSubmit ==
  /\ dialog.open
  /\ ~SubmitDisabled
  /\ dialog' = [dialog EXCEPT !.calls = @ \o Callback, !.submits = @ + 1,
                              !.remarks = <<>>, !.selectedDepartments = <<>>,
                              !.approverName = <<>>, !.open = FALSE]
  /\ UNCHANGED <<documents, documentDepartments, notifications, controlCopies, printLogs, reqs, pdfs>>

----------------------------------------------------------------------------
(* A storage call that writes throws (the file cannot be written): the     *)
(* handler's catch answers 500 and nothing more of the handler runs.       *)

WritePcs == {"c_file", "c_notify", "a_update", "a_depts", "a_notify", "a_notifyPrep",
             "d_update", "d_notify", "i_update", "i_notifyPrep", "i_notifyAppr",
             "v_copy", "v_log"}

StorageThrows(r) ==
  /\ reqs[r].pc \in WritePcs
  /\ reqs' = [reqs EXCEPT ![r] = Respond(r, 500)]
  /\ UNCHANGED <<documents, documentDepartments, notifications, controlCopies, printLogs, pdfs, dialog>>

----------------------------------------------------------------------------

NoPdfs == [path \in {} |-> NoPdf]

(* The approval dialog as mounted, closed: its props (onApprove and         *)
(* onDecline say whether the parent passes the callback), its state, and   *)
(* the history of the callbacks it has called and of its submits.  A text  *)
(* is the sequence of its characters.                                      *)
NoDialog ==
  [open |-> FALSE, type |-> "approve", onApprove |-> FALSE, onDecline |-> FALSE,
   departments |-> <<>>, remarks |-> <<>>, selectedDepartments |-> <<>>,
   approverName |-> <<>>, calls |-> <<>>, submits |-> 0]

Init ==
  /\ documents = <<>>
  /\ documentDepartments = {}
  /\ notifications = {}
  /\ controlCopies = <<>>
  /\ printLogs = <<>>
  /\ reqs = <<>>
  /\ pdfs = NoPdfs
  /\ dialog = NoDialog

NextWorkflow ==
  \/ \E n \in DocNumbers, v \in Revisions, p \in Preparers :
       PostDocument([NoBody EXCEPT !.docNumber = n, !.revisionNo = v, !.preparedBy = p])
  \/ \E r \in Ops : CreateSaveFile(r)
  \/ \E r \in Ops : CreateNotify(r)
  \/ \E id \in RequestIds, body \in ApproveBodies : PostApprove(id, body)
  \/ \E r \in Ops : ApproveUpdate(r)
  \/ \E r \in Ops : ApproveDepartments(r)
  \/ \E r \in Ops : ApproveNotifyIssuer(r)
  \/ \E r \in Ops : ApproveNotifyPreparer(r)
  \/ \E id \in RequestIds, body \in DeclineBodies : PostDecline(id, body)
  \/ \E r \in Ops : DeclineUpdate(r)
  \/ \E r \in Ops : DeclineNotify(r)
  \/ \E id \in RequestIds, body \in IssueBodies : PostIssue(id, body)
  \/ \E r \in Ops : IssueUpdate(r)
  \/ \E r \in Ops : IssueNotifyPreparer(r)
  \/ \E r \in Ops : IssueNotifyApprover(r)

NextDistribution ==
  \/ \E id \in RequestIds, body \in DistBodies : GetPdf(id, body)
  \/ \E id \in RequestIds, body \in DistBodies : PostPrint(id, body)
  \/ \E r \in Ops : ResolveVersion(r)
  \/ \E r \in Ops : RefetchRequested(r)
  \/ \E r \in Ops : IssueControlCopy(r)
  \/ \E r \in Ops : LogPrint(r)
  \/ \E r \in Ops : Render(r)
  \/ \E r \in Ops : SendPdf(r)
  \/ \E r \in Ops : RenderThrows(r)

Throws == \E r \in Ops : StorageThrows(r)

Next == NextWorkflow \/ NextDistribution \/ Throws

(* The whole server, from the empty store. *)
Spec == Init /\ [][Next]_vars

----------------------------------------------------------------------------
(* Distribution requests against a store that earlier workflow requests    *)
(* have filled: each seeded row is what create, the file upload, approve   *)
(* and issue leave when they run one after the other.                      *)

SeedRow(id, revisionNo, status) ==
  LET created == [wordFilePath |-> "file"] @@
                 NewRow(id, [docNumber |-> "QA-001", revisionNo |-> revisionNo,
                             preparedBy |-> "c1"])
      approved == ApproveFields([NoBody EXCEPT !.approvedBy = "a1", !.remarks = "ok"])
                  @@ created
      issued == IssueFields([NoBody EXCEPT !.issuedBy = "i1", !.issuerName = "Ira",
                                           !.remarks = "go"]) @@ approved
  IN IF status = "issued" THEN issued ELSE approved

(* The notifications those requests left; their requests are not kept. *)
SeedNotes(row) ==
  {[userId |-> "a1", documentId |-> row.id, type |-> "new_document", op |-> 0 - row.id, k |-> 1],
   [userId |-> "i1", documentId |-> row.id, type |-> "approved_document", op |-> 0 - row.id, k |-> 2],
   [userId |-> "i2", documentId |-> row.id, type |-> "approved_document", op |-> 0 - row.id, k |-> 3],
   [userId |-> "c1", documentId |-> row.id, type |-> "document_status_update",
    op |-> 0 - row.id, k |-> 4]}
  \cup (IF row.status = "issued"
          THEN {[userId |-> "c1", documentId |-> row.id, type |-> "document_issued",
                 op |-> 0 - row.id, k |-> 5],
                [userId |-> "a1", documentId |-> row.id, type |-> "document_issued",
                 op |-> 0 - row.id, k |-> 6]}
          ELSE {})

SeedStores ==
  { <<SeedRow(1, 0, "approved")>>,
    <<SeedRow(1, 0, "issued")>>,
    <<SeedRow(1, 0, "issued"), SeedRow(2, 1, "issued")>>,
    <<SeedRow(1, 0, "issued"), SeedRow(2, 1, "approved")>> }

(* Copies issued before: none, or one view of document 1 by the recipient. *)
SeedCopies ==
  { <<>>,
    <<[id |-> 1, documentId |-> 1, userId |-> "r1", actionType |-> "view", copyNumber |-> 1]>> }

(* The files the requests of those copies left. *)
SeedPdfs(rows, copies) ==
  [path \in {pdfFileName(rows[copies[i].documentId], copies[i].copyNumber) :
               i \in DOMAIN copies}
     |-> [userId |-> "r1", controlCopyNumber |-> path[3]]]

InitDist ==
  /\ documents \in SeedStores
  /\ documentDepartments = {}
  /\ notifications = UNION {SeedNotes(documents[i]) : i \in DOMAIN documents}
  /\ controlCopies \in SeedCopies
  /\ printLogs = <<>>
  /\ reqs = <<>>
  /\ pdfs = SeedPdfs(documents, controlCopies)
  /\ dialog = NoDialog

NextDist == NextDistribution \/ Throws

SpecDist == InitDist /\ [][NextDist]_vars

(* Distribution requests that run among approve, decline and issue         *)
(* requests on the rows of the seeded store: one accepted body per         *)
(* transition, the recipient and the admin asking for the default version, *)
(* the admin also for revision 0.                                          *)
MixedBodies ==
  { [NoBody EXCEPT !.userId = u] : u \in {"r1", "m1"} }
  \cup { [NoBody EXCEPT !.userId = "m1", !.version = "0"] }

NextMixed ==
  \/ \E id \in DocIds, body \in MixedBodies : GetPdf(id, body)
  \/ \E id \in DocIds, body \in MixedBodies : PostPrint(id, body)
  \/ \E r \in Ops : ResolveVersion(r)
  \/ \E r \in Ops : RefetchRequested(r)
  \/ \E r \in Ops : IssueControlCopy(r)
  \/ \E r \in Ops : LogPrint(r)
  \/ \E r \in Ops : Render(r)
  \/ \E r \in Ops : SendPdf(r)
  \/ \E id \in DocIds :
       PostApprove(id, [NoBody EXCEPT !.approvedBy = "a1", !.remarks = "ok",
                                      !.departments = <<"QA">>])
  \/ \E r \in Ops : ApproveUpdate(r)
  \/ \E r \in Ops : ApproveDepartments(r)
  \/ \E r \in Ops : ApproveNotifyIssuer(r)
  \/ \E r \in Ops : ApproveNotifyPreparer(r)
  \/ \E id \in DocIds : PostDecline(id, [NoBody EXCEPT !.remarks = "no"])
  \/ \E r \in Ops : DeclineUpdate(r)
  \/ \E r \in Ops : DeclineNotify(r)
  \/ \E id \in DocIds, body \in IssueBodies : PostIssue(id, body)
  \/ \E r \in Ops : IssueUpdate(r)
  \/ \E r \in Ops : IssueNotifyPreparer(r)
  \/ \E r \in Ops : IssueNotifyApprover(r)

SpecMixed == InitDist /\ [][NextMixed]_vars

(* The approval dialog in a page, used any number of times. *)
NextDialog ==
  \/ \E type \in {"approve", "decline"}, onApprove \in BOOLEAN, onDecline \in BOOLEAN,
        departments \in {<<>>, <<"QA">>} :
       OpenDialog(type, onApprove, onDecline, departments)
  \/ \E value \in Texts : SetRemarks(value)
  \/ \E value \in Texts : SetApproverName(value)
  \/ \E deptId \in {"QA"} : handleDepartmentToggle(deptId)
  \/ Cancel
  \/ handleSubmit

SpecDialog == Init /\ [][NextDialog]_vars

(* Version listings of a store that earlier workflow requests have filled. *)
NextVersions ==
  \/ \E body \in VersionBodies : GetVersions(body)
  \/ \E r \in Ops : ListVersions(r)

SpecVersions == InitDist /\ [][NextVersions]_vars

----------------------------------------------------------------------------
(* Helpers of the properties. *)

TransitionOps == {"approve", "decline", "issue"}

WorkflowOps == TransitionOps \cup {"create"}

Done(r) == reqs[r].pc = "done"

(* The users a workflow request notifies when all of its calls succeed, in *)
(* the order of the calls; row is the Document its getDocument returned.   *)
Targets(q, row) ==
  CASE q.op = "create"  -> getUsersByRole("approver")
    [] q.op = "approve" -> Append(getUsersByRole("issuer"), row.preparedBy)
    [] q.op = "decline" -> <<row.preparedBy>>
    [] OTHER            -> IF Truthy(row.approvedBy)
                             THEN <<row.preparedBy, row.approvedBy>>
                             ELSE <<row.preparedBy>>

FieldsOf(q) ==
  CASE q.op = "approve" -> ApproveFields(q.body)
    [] q.op = "decline" -> DeclineFields(q.body)
    [] OTHER            -> IssueFields(q.body)

(* The users notified, per request, when request r runs alone on row. *)
AloneTargets(r, row) ==
  LET t == Targets(reqs[r], row) IN {<<r, k, t[k]>> : k \in 1..Len(t)}

NotedTargets(r) == {<<n.op, n.k, n.userId>> : n \in NotesOf(r)}

(* The row of document d as create and the file upload left it. *)
BaseRow(d) ==
  [wordFilePath |-> documents[d].wordFilePath] @@
  NewRow(d, [docNumber |-> documents[d].docNumber, revisionNo |-> documents[d].revisionNo,
             preparedBy |-> documents[d].preparedBy])

(* Requests r1 then r2, each run alone, on row. *)
Serial(row, r1, r2) ==
  LET row1 == FieldsOf(reqs[r1]) @@ row
      row2 == FieldsOf(reqs[r2]) @@ row1
  IN [row |-> row2, notes |-> AloneTargets(r1, row) \cup AloneTargets(r2, row1)]

TransitionsOn(d) ==
  {r \in Ops : reqs[r].op \in TransitionOps /\ reqs[r].id = d /\ Found(reqs[r].document)}

(* Distribution requests that were issued a control copy for document d. *)
Issued(d) == {r \in Ops : reqs[r].controlCopy.id # 0 /\ reqs[r].document.id = d}

Returned(d) == {reqs[r].controlCopy.copyNumber : r \in Issued(d)}

(* Copies of d that no request of the run was issued: they were there before. *)
AlreadyIssued(d) ==
  Cardinality({i \in CopiesOf(d) : \A r \in Ops : reqs[r].controlCopy.id # i})

----------------------------------------------------------------------------
(* C1: whatever the interleaving of the distribution requests that are     *)
(* issued a control copy for one document, the copy numbers returned to    *)
(* them are exactly k+1..k+m, each returned once, where k copies of the    *)
(* document were issued before and m requests have been issued one.        *)
C1_CopyNumbersExactlyOnce ==
  \A d \in DocIds :
    /\ Returned(d) = (AlreadyIssued(d) + 1)..(AlreadyIssued(d) + Cardinality(Issued(d)))
    /\ \A r1, r2 \in Issued(d) :
         reqs[r1].controlCopy.copyNumber = reqs[r2].controlCopy.copyNumber => r1 = r2

(* Two requests in flight at once hold copies 2 and 3 of a document that   *)
(* had one copy before.                                                    *)
C1_Witness ==
  \E r1, r2 \in InFlight :
    /\ r1 # r2
    /\ reqs[r1].document.id = reqs[r2].document.id
    /\ AlreadyIssued(reqs[r1].document.id) = 1
    /\ reqs[r1].controlCopy.copyNumber = 2
    /\ reqs[r2].controlCopy.copyNumber = 3

(* C2: two approve/decline/issue requests on one document, the only ones   *)
(* it has received, that have both answered 200, leave the Document row    *)
(* and the notifications that running them one after the other, in one of  *)
(* the two orders, leaves.                                                 *)
C2_Serializable ==
  \A r1, r2 \in Ops :
    (/\ r1 < r2
     /\ TransitionsOn(reqs[r1].id) = {r1, r2}
     /\ Done(r1) /\ reqs[r1].res = 200
     /\ Done(r2) /\ reqs[r2].res = 200)
    => LET d == reqs[r1].id
           got == [row |-> documents[d], notes |-> NotedTargets(r1) \cup NotedTargets(r2)]
       IN got \in {Serial(BaseRow(d), r1, r2), Serial(BaseRow(d), r2, r1)}

(* C3: in every state, a workflow request that has changed a Document row  *)
(* has created all of its notifications too.                               *)
C3_Atomic ==
  \A r \in Ops :
    (reqs[r].op \in WorkflowOps /\ reqs[r].wrote)
    => NotedTargets(r) = AloneTargets(r, reqs[r].document)

(* C4: an issue request that found its document in a status other than    *)
(* approved changes no row, creates no notification and does not succeed.  *)
C4_IssueRequiresApproved ==
  \A r \in Ops :
    (reqs[r].op = "issue" /\ Found(reqs[r].document)
       /\ reqs[r].document.status # "approved")
    => /\ ~reqs[r].wrote
       /\ NotesOf(r) = {}
       /\ reqs[r].res # 200

(* C5: a row is created pending, and every change of a row's status is one *)
(* of pending->approved, pending->declined, approved->declined,            *)
(* approved->issued; so issued is never left.                              *)
AllowedEdges ==
  {<<"pending", "approved">>, <<"pending", "declined">>,
   <<"approved", "declined">>, <<"approved", "issued">>}

C5_StatusEdges ==
  [][/\ \A d \in DocIds :
          documents'[d].status # documents[d].status
          => <<documents[d].status, documents'[d].status>> \in AllowedEdges
     /\ \A d \in DOMAIN documents' :
          d \notin DocIds => documents'[d].status = "pending"]_vars

(* C6: an approve request with empty remarks, or with an approvedBy that   *)
(* is no user, changes no row and no department association, creates no    *)
(* notification and does not succeed.                                      *)
C6_ApproveValidates ==
  \A r \in Ops :
    (reqs[r].op = "approve" /\ Found(reqs[r].document)
       /\ (reqs[r].body.remarks = "" \/ getUser(reqs[r].body.approvedBy) = NULL))
    => /\ ~reqs[r].wrote
       /\ NotesOf(r) = {}
       /\ reqs[r].res # 200

C8_DeclineValidates ==
  \A r \in Ops :
    (reqs[r].op = "decline" /\ Found(reqs[r].document) /\ reqs[r].body.remarks = "")
    => /\ ~reqs[r].wrote
       /\ NotesOf(r) = {}
       /\ reqs[r].res # 200

(* C9: an approve, decline or issue request whose id resolved to no        *)
(* Document has answered 404, has changed no row and no department         *)
(* association, and has created no notification.                           *)
C9_NotFound ==
  \A r \in Ops :
    (reqs[r].op \in TransitionOps /\ ~Found(reqs[r].document))
    => /\ Done(r) /\ reqs[r].res = 404
       /\ ~reqs[r].wrote
       /\ NotesOf(r) = {}

(* Two different handlers have answered 404 for an id that no row has,    *)
(* and the one row of the store is as create left it.                      *)
C9_Witness ==
  /\ Len(documents) = 1
  /\ documents[1] = BaseRow(1)
  /\ \E r, q \in Ops :
       /\ reqs[r].op = "approve" /\ reqs[r].res = 404 /\ reqs[r].id \notin DocIds
       /\ reqs[q].op = "issue" /\ reqs[q].res = 404 /\ reqs[q].id \notin DocIds

----------------------------------------------------------------------------
(* The users a request has created notifications for. *)
Notified(r) == {n.userId : n \in NotesOf(r)}

UsersOfRole(r) == {u \in Users : role(u) = r}

(* C11: an issue request that has answered 200 has notified the preparer   *)
(* of the row its update returned, the approver of that row if and only if *)
(* the row's approvedBy is set, and nobody else.                           *)
C11_IssueNotifiesPreparerAndApprover ==
  \A r \in Ops :
    (reqs[r].op = "issue" /\ Done(r) /\ reqs[r].res = 200)
    => Notified(r) = {reqs[r].updatedDoc.preparedBy}
                     \cup (IF Truthy(reqs[r].updatedDoc.approvedBy)
                             THEN {reqs[r].updatedDoc.approvedBy} ELSE {})

(* C12: a create request that has answered 201 has notified exactly the    *)
(* users of role approver; an approve request that has answered 200 has    *)
(* notified exactly the users of role issuer and the document's preparer.  *)
C12_TargetsFollowRuleTable ==
  \A r \in Ops :
    /\ (reqs[r].op = "create" /\ Done(r) /\ reqs[r].res = 201)
       => Notified(r) = UsersOfRole("approver")
    /\ (reqs[r].op = "approve" /\ Done(r) /\ reqs[r].res = 200)
       => Notified(r) = UsersOfRole("issuer") \cup {documents[reqs[r].id].preparedBy}

(* A create and an approve of its document have both succeeded: the        *)
(* approver, and then both issuers and the creator, hold the notifications. *)
C12_Witness ==
  \E r, q \in Ops :
    /\ reqs[r].op = "create" /\ Done(r) /\ reqs[r].res = 201
    /\ reqs[r].body.preparedBy = "c1"
    /\ Notified(r) = {"a1"}
    /\ reqs[q].op = "approve" /\ Done(q) /\ reqs[q].res = 200 /\ reqs[q].id = reqs[r].id
    /\ Notified(q) = {"i1", "i2", "c1"}

(* C13: an approve or issue request creates at most one notification per   *)
(* user.                                                                   *)
C13_OneNotificationPerUser ==
  \A r \in Ops :
    reqs[r].op \in {"approve", "issue"}
    => \A n1, n2 \in NotesOf(r) : n1.userId = n2.userId => n1 = n2

----------------------------------------------------------------------------
(* Helpers of the distribution properties.  They read the store as it is:  *)
(* under SpecDist no Document row changes while requests are served.       *)

DistOps == {"pdf", "print"}

(* V: the ids of the issued rows of a docNumber; latest: the one with the  *)
(* greatest revisionNo.                                                    *)
IssuedVersions(docNumber) ==
  {i \in DocIds : documents[i].status = "issued" /\ documents[i].docNumber = docNumber}

LatestIssued(docNumber) ==
  CHOOSE i \in IssuedVersions(docNumber) :
    \A j \in IssuedVersions(docNumber) : documents[j].revisionNo <= documents[i].revisionNo

(* A view or print request of an existing user on an existing row. *)
Distribution(q) == q.op \in DistOps /\ q.body.userId \in Users /\ q.id \in DocIds

VersionsOf(q) == IssuedVersions(documents[q.id].docNumber)

LatestOf(q) == LatestIssued(documents[q.id].docNumber)

(* The request names a revision number. *)
Explicit(q) == q.body.version # NULL /\ parseInt(q.body.version) # NaN

(* The step is the arrival or a later step of request r. *)
StepOf(r) == r \notin Ops \/ reqs'[r] # reqs[r]

(* A step of request r creates no ControlCopy and no PrintLog, and if it   *)
(* answers, it answers code.                                               *)
Refused(r, code) ==
  StepOf(r) => /\ controlCopies' = controlCopies
               /\ printLogs' = printLogs
               /\ (reqs'[r].pc = "done" => reqs'[r].res = code)

(* C14: every step of a request by a user without master copy access that  *)
(* names a revision other than the latest issued one creates no            *)
(* ControlCopy and no PrintLog, and the request is answered 403.           *)
C14_OldVersionDenied ==
  [][\A r \in DOMAIN reqs' :
       (/\ Distribution(reqs'[r]) /\ ~masterCopyAccess(reqs'[r].body.userId)
        /\ Explicit(reqs'[r]) /\ VersionsOf(reqs'[r]) # {}
        /\ parseInt(reqs'[r].body.version) # documents[LatestOf(reqs'[r])].revisionNo)
       => Refused(r, 403)]_vars

(* The recipient asked to print revision 0 while revisions 0 and 1 are     *)
(* issued, and was answered 403.                                           *)
C14_Witness ==
  \E r \in Ops :
    /\ reqs[r].op = "print" /\ reqs[r].body.userId = "r1" /\ reqs[r].body.version = "0"
    /\ Distribution(reqs[r])
    /\ Cardinality(VersionsOf(reqs[r])) = 2
    /\ documents[LatestOf(reqs[r])].revisionNo = 1
    /\ Done(r) /\ reqs[r].res = 403

(* C15: a request by a user without master copy access that names the      *)
(* latest issued revision is not refused: when it has answered (storage    *)
(* and rendering not failing) it has answered 200, with a ControlCopy of   *)
(* the latest issued row.                                                  *)
C15_LatestVersionPermitted ==
  \A r \in Ops :
    (/\ Distribution(reqs[r]) /\ ~masterCopyAccess(reqs[r].body.userId)
     /\ Explicit(reqs[r]) /\ VersionsOf(reqs[r]) # {}
     /\ parseInt(reqs[r].body.version) = documents[LatestOf(reqs[r])].revisionNo
     /\ Done(r) /\ reqs[r].res # 500)
    => /\ reqs[r].res = 200
       /\ reqs[r].controlCopy.documentId = LatestOf(reqs[r])

(* C16: a request that names no revision, on a docNumber with an issued    *)
(* row, is issued its ControlCopy against the latest issued row whichever  *)
(* row it addressed, and when it has answered (storage and rendering not   *)
(* failing) it has answered 200.                                           *)
C16_OmittedResolvesToLatest ==
  \A r \in Ops :
    (Distribution(reqs[r]) /\ reqs[r].body.version = NULL /\ VersionsOf(reqs[r]) # {})
    => /\ reqs[r].controlCopy.id # 0 => reqs[r].controlCopy.documentId = LatestOf(reqs[r])
       /\ (Done(r) /\ reqs[r].res # 500) => reqs[r].res = 200

(* The issued row of the request's docNumber that has the revision named. *)
NamedVersion(q) ==
  {i \in VersionsOf(q) : documents[i].revisionNo = parseInt(q.body.version)}

(* C17: a request by a user with master copy access that names an issued   *)
(* revision is issued its ControlCopy against the issued row of that       *)
(* revision, and when it has answered (storage and rendering not failing)  *)
(* it has answered 200 with such a copy.                                   *)
C17_MasterServedNamedVersion ==
  \A r \in Ops :
    (/\ Distribution(reqs[r]) /\ masterCopyAccess(reqs[r].body.userId)
     /\ Explicit(reqs[r]) /\ NamedVersion(reqs[r]) # {})
    => /\ reqs[r].controlCopy.id # 0 => reqs[r].controlCopy.documentId \in NamedVersion(reqs[r])
       /\ (Done(r) /\ reqs[r].res # 500)
          => reqs[r].res = 200 /\ reqs[r].controlCopy.id # 0
       /\ reqs[r].controlCopy.id # 0
          => controlCopies[reqs[r].controlCopy.id] = reqs[r].controlCopy

(* The admin addressed the row of revision 1 and named revision 0: the     *)
(* copy is one of the row of revision 0.                                   *)
C17_Witness ==
  \E r \in Ops :
    /\ reqs[r].body.userId = "m1" /\ reqs[r].body.version = "0"
    /\ reqs[r].id \in DocIds /\ documents[reqs[r].id].revisionNo = 1
    /\ Done(r) /\ reqs[r].res = 200
    /\ reqs[r].controlCopy.id # 0
    /\ documents[reqs[r].controlCopy.documentId].revisionNo = 0

(* C18: every step of a request on a docNumber that has no issued row      *)
(* creates no ControlCopy and no PrintLog, and the request is answered     *)
(* 404, whoever the user is and whether or not it names a revision.        *)
C18_NoIssuedVersionNotFound ==
  [][\A r \in DOMAIN reqs' :
       (Distribution(reqs'[r]) /\ VersionsOf(reqs'[r]) = {})
       => Refused(r, 404)]_vars

(* The admin without a version and the recipient with one have both been   *)
(* answered 404 on a docNumber whose only row is approved.                 *)
C18_Witness ==
  \E r, q \in Ops :
    /\ Distribution(reqs[r]) /\ Distribution(reqs[q])
    /\ VersionsOf(reqs[r]) = {} /\ documents[reqs[r].id].status = "approved"
    /\ reqs[r].body.userId = "m1" /\ reqs[r].body.version = NULL
    /\ reqs[q].body.userId = "r1" /\ reqs[q].body.version = "0"
    /\ Done(r) /\ reqs[r].res = 404
    /\ Done(q) /\ reqs[q].res = 404

(* C19: every step of a request whose document, at the status check, is a  *)
(* row that is not issued (a user with master copy access addressed it     *)
(* without naming a revision) creates no ControlCopy and no PrintLog, and  *)
(* the request is answered 403, also when the docNumber has issued rows.   *)
C19_UnissuedRowRefused ==
  [][\A r \in DOMAIN reqs' :
       (/\ Distribution(reqs'[r]) /\ masterCopyAccess(reqs'[r].body.userId)
        /\ reqs'[r].body.version = NULL /\ VersionsOf(reqs'[r]) # {}
        /\ documents[reqs'[r].id].status # "issued")
       => Refused(r, 403)]_vars

(* The admin asked to view the approved revision 1 while revision 0 is     *)
(* issued, and was answered 403.                                           *)
C19_Witness ==
  \E r \in Ops :
    /\ reqs[r].op = "pdf" /\ reqs[r].body.userId = "m1" /\ reqs[r].body.version = NULL
    /\ Distribution(reqs[r]) /\ documents[reqs[r].id].status = "approved"
    /\ VersionsOf(reqs[r]) # {}
    /\ Done(r) /\ reqs[r].res = 403 /\ reqs[r].controlCopy.id = 0

(* C20: once every request has answered, each ControlCopy of actionType    *)
(* print is referenced by exactly one PrintLog, of the same documentId and *)
(* userId, and each PrintLog references a print ControlCopy that no other  *)
(* PrintLog references.                                                    *)
PrintCopies == {i \in DOMAIN controlCopies : controlCopies[i].actionType = "print"}

LogsOf(i) == {l \in DOMAIN printLogs : printLogs[l].controlCopyId = i}

C20_PrintLogPerPrintCopy ==
  InFlight = {}
  => /\ \A i \in PrintCopies :
          /\ Cardinality(LogsOf(i)) = 1
          /\ \A l \in LogsOf(i) : /\ printLogs[l].documentId = controlCopies[i].documentId
                                   /\ printLogs[l].userId = controlCopies[i].userId
     /\ \A l \in DOMAIN printLogs : printLogs[l].controlCopyId \in PrintCopies

----------------------------------------------------------------------------
(* The rendering step of a request: convertWordToPDF and the read of its   *)
(* output.                                                                 *)
RenderPcs == {"v_render", "v_read"}

(* C21: after every step, a request in the rendering step has its          *)
(* ControlCopy row, and a print request its PrintLog row, in the store; no *)
(* step removes or changes a ControlCopy or PrintLog row, in particular    *)
(* not the step in which rendering fails, which answers 500; and no two    *)
(* ControlCopy rows of one document have the same copyNumber.              *)
C21_CommittedBeforeRendering ==
  [][/\ \A r \in DOMAIN reqs' :
          reqs'[r].pc \in RenderPcs
          => /\ reqs'[r].controlCopy.id \in DOMAIN controlCopies'
             /\ controlCopies'[reqs'[r].controlCopy.id] = reqs'[r].controlCopy
             /\ reqs'[r].op = "print"
                => \E l \in DOMAIN printLogs' :
                     printLogs'[l].controlCopyId = reqs'[r].controlCopy.id
     /\ \A r \in Ops :
          (reqs[r].pc = "v_render" /\ reqs'[r].pc = "done") => reqs'[r].res = 500
     /\ Len(controlCopies') >= Len(controlCopies)
     /\ SubSeq(controlCopies', 1, Len(controlCopies)) = controlCopies
     /\ Len(printLogs') >= Len(printLogs)
     /\ SubSeq(printLogs', 1, Len(printLogs)) = printLogs
     /\ \A i, j \in DOMAIN controlCopies' :
          (/\ controlCopies'[i].documentId = controlCopies'[j].documentId
           /\ controlCopies'[i].copyNumber = controlCopies'[j].copyNumber) => i = j]_vars

(* The rendering of a print request failed after copy 1 and its PrintLog   *)
(* were written; a later request on the document was sent copy 2.          *)
C21_Witness ==
  \E r, q \in Ops :
    /\ reqs[r].op = "print" /\ Done(r) /\ reqs[r].res = 500
    /\ reqs[r].controlCopy.copyNumber = 1
    /\ controlCopies[reqs[r].controlCopy.id] = reqs[r].controlCopy
    /\ \E l \in DOMAIN printLogs : printLogs[l].controlCopyId = reqs[r].controlCopy.id
    /\ r < q /\ Done(q) /\ reqs[q].res = 200
    /\ reqs[q].controlCopy.documentId = reqs[r].controlCopy.documentId
    /\ reqs[q].controlCopy.copyNumber = 2

(* C22: a request that has reached createControlCopy can be issued its     *)
(* copy whatever the other requests are doing, in particular while a       *)
(* request on the same document is in the rendering step.                  *)
C22_RenderingDoesNotBlockIssuance ==
  \A r \in Ops : reqs[r].pc = "v_copy" => ENABLED IssueControlCopy(r)

(* Two requests on one document are in convertWordToPDF at the same time,  *)
(* with copies 1 and 2.                                                    *)
C22_Witness ==
  \E r, q \in Ops :
    /\ r # q
    /\ reqs[r].pc = "v_render" /\ reqs[q].pc = "v_render"
    /\ reqs[r].controlCopy.documentId = reqs[q].controlCopy.documentId
    /\ reqs[r].controlCopy.copyNumber = 1 /\ reqs[q].controlCopy.copyNumber = 2

(* C23: a step of a view or print request that leaves the request without  *)
(* a ControlCopy (every step up to createControlCopy, so every step of a   *)
(* request that is rejected) changes no ControlCopy, PrintLog, Document,   *)
(* department association, notification or file.                           *)
C23_RejectionChangesNothing ==
  [][\A r \in DOMAIN reqs' :
       (reqs'[r].op \in DistOps /\ StepOf(r) /\ reqs'[r].controlCopy.id = 0)
       => /\ controlCopies' = controlCopies
          /\ printLogs' = printLogs
          /\ documents' = documents
          /\ documentDepartments' = documentDepartments
          /\ notifications' = notifications
          /\ pdfs' = pdfs]_vars

(* A request on an issued document that has no Word file was answered 404  *)
(* and the ledger and the print log are empty.                             *)
C23_Witness ==
  \E r \in Ops :
    /\ reqs[r].op \in DistOps /\ Done(r) /\ reqs[r].res = 404
    /\ reqs[r].document.status = "issued" /\ ~Truthy(reqs[r].document.wordFilePath)
    /\ controlCopies = <<>> /\ printLogs = <<>>

(* C27: in every state a Document row whose status is declined has neither *)
(* approvedBy nor issuedBy.                                                *)
C27_DeclinedHasNoApproverNorIssuer ==
  \A d \in DocIds :
    documents[d].status = "declined"
    => documents[d].approvedBy = NULL /\ documents[d].issuedBy = NULL

(* A decline has written the row after an approve that is still notifying: *)
(* the row is declined and the approver the approve wrote is gone.         *)
C27_Witness ==
  \E r, q \in Ops :
    /\ reqs[r].op = "approve" /\ reqs[r].wrote /\ ~Done(r)
    /\ reqs[r].updatedDoc.approvedBy = "a1"
    /\ reqs[q].op = "decline" /\ reqs[q].wrote /\ reqs[q].id = reqs[r].id
    /\ documents[reqs[r].id].status = "declined"
    /\ documents[reqs[r].id].approvedBy = NULL

(* C28: the file sent to a request that is answered 200 carries the        *)
(* request's own user id and the copy number issued to it, and no two      *)
(* requests render to the same path.                                       *)
C28_OwnArtifactReturned ==
  /\ \A r \in Ops :
       (reqs[r].op \in DistOps /\ Done(r) /\ reqs[r].res = 200)
       => /\ reqs[r].sent.userId = reqs[r].body.userId
          /\ reqs[r].sent.controlCopyNumber = reqs[r].controlCopy.copyNumber
          /\ reqs[r].controlCopy.copyNumber > 0
  /\ \A r, q \in Ops :
       (reqs[r].pdfPath # NoPath /\ reqs[r].pdfPath = reqs[q].pdfPath) => r = q

(* The recipient was sent its own copy while the admin's request, which    *)
(* came first, is between writing and reading its file of the same         *)
(* document.                                                               *)
C28_Witness ==
  \E r, q \in Ops :
    /\ q < r
    /\ reqs[r].body.userId = "r1" /\ Done(r) /\ reqs[r].res = 200
    /\ reqs[r].sent.userId = "r1"
    /\ reqs[q].body.userId = "m1" /\ reqs[q].pc = "v_read"
    /\ reqs[q].document.id = reqs[r].document.id
    /\ reqs[q].pdfPath \in DOMAIN pdfs /\ reqs[r].pdfPath \in DOMAIN pdfs

(* The rows a version listing is to return to a user: the issued rows of   *)
(* the docNumber for a user with master copy access, the latest of them    *)
(* for another user, none when there is no issued row.                     *)
Listed(docNumber, user) ==
  IF masterCopyAccess(user) THEN IssuedVersions(docNumber)
  ELSE IF IssuedVersions(docNumber) = {} THEN {}
  ELSE {LatestIssued(docNumber)}

(* C24: a version listing that has answered 200 holds exactly the rows it  *)
(* is to return, each once.                                                *)
C24_VersionListing ==
  \A r \in Ops :
    (reqs[r].op = "versions" /\ Done(r) /\ reqs[r].res = 200)
    => LET listed == Listed(reqs[r].body.docNumber, reqs[r].body.userId)
       IN /\ Len(reqs[r].versions) = Cardinality(listed)
          /\ {reqs[r].versions[i] : i \in DOMAIN reqs[r].versions}
               = {documents[d] : d \in listed}

(* The copy numbers of a document row, in the order of issuance. *)
NumbersOf(copies, documentId) ==
  LET own == SelectSeq(copies, LAMBDA c : c.documentId = documentId)
  IN [i \in DOMAIN own |-> own[i].copyNumber]

(* C25: the first ControlCopy of every document row has copyNumber 1; a    *)
(* step that issues a copy for one row leaves the copy numbers of every    *)
(* other row as they were; a step of a workflow transition on one row      *)
(* changes no field of any other row.                                      *)
C25_DocumentsAreIndependent ==
  [][/\ \A d \in DocIds :
          NumbersOf(controlCopies', d) # <<>> => NumbersOf(controlCopies', d)[1] = 1
     /\ controlCopies' # controlCopies
          => \A d \in DocIds \ {controlCopies'[Len(controlCopies')].documentId} :
               NumbersOf(controlCopies', d) = NumbersOf(controlCopies, d)
     /\ \A r \in Ops :
          (reqs[r].op \in TransitionOps /\ StepOf(r))
          => \A d \in DocIds \ {reqs[r].id} : documents'[d] = documents[d]]_vars

(* Two revision rows of one docNumber have each their copy number 1, and a *)
(* transition has written one of the two rows.                             *)
C25_Witness ==
  /\ Len(documents) = 2
  /\ NumbersOf(controlCopies, 1) # <<>> /\ NumbersOf(controlCopies, 2) # <<>>
  /\ controlCopies[Len(controlCopies)].copyNumber = 1
  /\ \E r \in Ops : reqs[r].op \in TransitionOps /\ reqs[r].wrote

(* The ControlCopy row a step creates. *)
Created == controlCopies'[Len(controlCopies')]

(* C29: when a step creates a ControlCopy for a user without master copy   *)
(* access, no issued row of the copy's docNumber has a greater revisionNo  *)
(* than the row the copy references.                                       *)
C29_LatestAtIssuance ==
  [][(Len(controlCopies') > Len(controlCopies) /\ ~masterCopyAccess(Created.userId))
     => \A j \in IssuedVersions(documents[Created.documentId].docNumber) :
          documents[j].revisionNo <= documents[Created.documentId].revisionNo]_vars

(* C30: when a step creates a ControlCopy, the row it references has       *)
(* status issued.                                                          *)
C30_IssuedAtIssuance ==
  [][Len(controlCopies') > Len(controlCopies)
     => documents[Created.documentId].status = "issued"]_vars

(* The callbacks a step calls. *)
Called == SubSeq(dialog'.calls, Len(dialog.calls) + 1, Len(dialog'.calls))

(* The fields are filled as the submit button requires. *)
Filled ==
  /\ trim(dialog.remarks) # <<>>
  /\ dialog.type = "approve" => trim(dialog.approverName) # <<>>

(* The parent passes the callback of the dialog's mode. *)
Passed == IF dialog.type = "approve" THEN dialog.onApprove ELSE dialog.onDecline

(* After a submit the state is empty and the dialog is closed. *)
ResetAndClosed ==
  /\ dialog'.remarks = <<>>
  /\ dialog'.selectedDepartments = <<>>
  /\ dialog'.approverName = <<>>
  /\ ~dialog'.open

(* C26 as stated: a step calls a callback only if it is a submit with the  *)
(* fields filled, and every submit calls exactly one callback, onApprove   *)
(* in approve mode and onDecline otherwise, then resets the state and      *)
(* closes the dialog.                                                      *)
C26_SubmitCallsExactlyOne ==
  [][/\ Called # <<>> => (dialog'.submits = dialog.submits + 1 /\ Filled)
     /\ dialog'.submits # dialog.submits
          => /\ Len(Called) = 1
             /\ Called[1].name = IF dialog.type = "approve" THEN "onApprove" ELSE "onDecline"
             /\ ResetAndClosed]_vars

(* C26, amended: a step calls a callback only if it is a submit with the   *)
(* fields filled; a submit calls the callback of its mode once, with the   *)
(* state as typed, if the parent passes that callback, and no callback     *)
(* otherwise; then the state is reset and the dialog closed.               *)
C26_SubmitCallsOwnCallback ==
  [][/\ Called # <<>> => (dialog'.submits = dialog.submits + 1 /\ Filled)
     /\ dialog'.submits # dialog.submits
          => /\ Filled
             /\ Len(Called) = IF Passed THEN 1 ELSE 0
             /\ \A i \in DOMAIN Called :
                  /\ Called[i].name =
                       IF dialog.type = "approve" THEN "onApprove" ELSE "onDecline"
                  /\ Called[i].remarks = dialog.remarks
                  /\ dialog.type = "approve"
                       => /\ Called[i].approverName = dialog.approverName
                          /\ Called[i].departments = dialog.selectedDepartments
             /\ ResetAndClosed]_vars

(* Two submits are done, one that called its callback and one whose        *)
(* callback the parent did not pass.                                        *)
C26_Witness ==
  /\ dialog.submits = 2
  /\ Len(dialog.calls) = 1
  /\ dialog.calls[1].remarks = <<" ", "o", "k">>
  /\ ~dialog.open /\ dialog.remarks = <<>>

====
